---- MODULE Spec2Model ----
(***************************************************************************)
(* The page model of cosmic-settings (src/page/model.rs): the page and     *)
(* section registries, the hierarchy and content maps, the type-keyed      *)
(* resource and per-page data stores, the Insert cursor and the lazy       *)
(* search iterator.                                                         *)
(*                                                                         *)
(* Entities are slot-map keys.  The model never removes a page or a        *)
(* section, so a key is its allocation index (1, 2, ...) and the null key  *)
(* (Entity::default()) is 0.  An Option is a record with a `some` flag.    *)
(***************************************************************************)
EXTENDS Integers, Sequences, FiniteSets, TLC

VARIABLES model, insert, iter, call, ops

vars == <<model, insert, iter, call, ops>>

(***************************************************************************)
(* Bounds of the exploration.                                              *)
(***************************************************************************)
MaxPages == 3
MaxSections == 3
MaxContentOps == 1
MaxDataOps == 2
MaxResourceOps == 2
MaxMixedOps == 1

NullEntity == 0

(***************************************************************************)
(* Page definitions (implementations of the Page trait).  Each kind gives  *)
(* its optional content (the texts of the sections P::content allocates),  *)
(* its model type, the sub_page chain of its P::sub_pages hook and the     *)
(* content (the texts of the sections it allocates) that the hook hands to *)
(* Insert::content after the chain, if it makes that call.                 *)
(***************************************************************************)
Kinds == {"X", "Y", "Z", "W"}

alpha == <<1>>
beta == <<2>>
alphabet == <<1, 2>>

Rules == {alpha, beta}

PageContent(P) ==
    CASE P = "X" -> [some |-> FALSE, texts |-> << >>]
      [] P = "Y" -> [some |-> TRUE, texts |-> <<alpha, beta>>]
      [] P = "Z" -> [some |-> TRUE, texts |-> <<alphabet>>]
      [] P = "W" -> [some |-> FALSE, texts |-> << >>]

PageModel(P) ==
    CASE P = "X" -> "MA"
      [] P = "Y" -> "MA"
      [] P = "Z" -> "MB"
      [] P = "W" -> "MB"

PageHook(P) ==
    CASE P = "X" -> << >>
      [] P = "Y" -> << >>
      [] P = "Z" -> <<"X">>
      [] P = "W" -> <<"Y", "X">>

HookContent(P) ==
    CASE P = "W" -> [some |-> TRUE, texts |-> <<beta>>]
      [] OTHER -> [some |-> FALSE, texts |-> << >>]

DataTypes == {"T", "U"}
DataValues == {1, 2}
ResourceTypes == {"MA", "MB"}
DefaultValue == 0
ResourceValues == {0, 1}

(***************************************************************************)
(* Section::matches_search: the rule occurs in the section's text.         *)
(***************************************************************************)
matches_search(text, rule) ==
    \E i \in 1..(Len(text) - Len(rule) + 1) :
        SubSeq(text, i, i + Len(rule) - 1) = rule

(***************************************************************************)
(* Map helpers: a map is a function on the set of its keys.                *)
(***************************************************************************)
EmptyMap == [k \in {} |-> 0]

MapInsert(f, k, v) == [x \in DOMAIN f \cup {k} |-> IF x = k THEN v ELSE f[x]]

MapRemove(f, k) == [x \in DOMAIN f \ {k} |-> f[x]]

Range(s) == {s[i] : i \in DOMAIN s}

(***************************************************************************)
(* Model::default                                                          *)
(***************************************************************************)
ModelDefault ==
    [pages |-> << >>,
     resource |-> EmptyMap,
     storage |-> EmptyMap,
     sub_pages |-> EmptyMap,
     sections |-> << >>,
     content |-> EmptyMap,
     constructed |-> [t \in ResourceTypes |-> 0],
     overwrites |-> 0]

(***************************************************************************)
(* Queries                                                                  *)
(***************************************************************************)
contains_item(m, id) == id \in DOMAIN m.pages

content(m, page) ==
    IF page \in DOMAIN m.content
    THEN [some |-> TRUE, v |-> m.content[page]]
    ELSE [some |-> FALSE, v |-> << >>]

sub_pages(m, page) ==
    IF page \in DOMAIN m.sub_pages
    THEN [some |-> TRUE, v |-> m.sub_pages[page]]
    ELSE [some |-> FALSE, v |-> << >>]

data(m, T, id) ==
    IF T \in DOMAIN m.storage /\ id \in DOMAIN m.storage[T]
    THEN [some |-> TRUE, v |-> m.storage[T][id]]
    ELSE [some |-> FALSE, v |-> 0]

resource(m, T) ==
    IF T \in DOMAIN m.resource
    THEN [some |-> TRUE, v |-> m.resource[T]]
    ELSE [some |-> FALSE, v |-> 0]

(***************************************************************************)
(* Per-page data                                                            *)
(***************************************************************************)
\* Faulty variant of data_set: it stores the value in a fresh per-type map.
data_set_clobber(m, T, id, d) ==
    IF contains_item(m, id)
    THEN [m EXCEPT !.storage = MapInsert(m.storage, T, MapInsert(EmptyMap, id, d))]
    ELSE m

\* Faulty variant of data_set: it keeps the value the page already has.
data_set_keep(m, T, id, d) ==
    IF contains_item(m, id) /\ ~data(m, T, id).some
    THEN LET inner == IF T \in DOMAIN m.storage THEN m.storage[T] ELSE EmptyMap
         IN [m EXCEPT !.storage = MapInsert(m.storage, T, MapInsert(inner, id, d))]
    ELSE m

\* Faulty variant of data_set: it stores the value without the liveness
\* check.
data_set_unguarded(m, T, id, d) ==
    LET inner == IF T \in DOMAIN m.storage THEN m.storage[T] ELSE EmptyMap
    IN [m EXCEPT !.storage = MapInsert(m.storage, T, MapInsert(inner, id, d))]

data_set(m, T, id, d) ==
    IF contains_item(m, id)
    THEN LET inner == IF T \in DOMAIN m.storage THEN m.storage[T] ELSE EmptyMap
         IN [m EXCEPT !.storage = MapInsert(m.storage, T, MapInsert(inner, id, d))]
    ELSE m

\* Faulty variant of data_remove: it removes the whole map of the type.
data_remove_type(m, T, id) ==
    [m EXCEPT !.storage = MapRemove(m.storage, T)]

data_remove(m, T, id) ==
    IF T \in DOMAIN m.storage
    THEN [m EXCEPT !.storage = MapInsert(m.storage, T, MapRemove(m.storage[T], id))]
    ELSE m

(***************************************************************************)
(* Resources                                                                *)
(***************************************************************************)
\* Faulty variants of resource_register: one stores a new default whether
\* or not the type is present, one keeps the stored value but constructs a
\* default on every call.
resource_register_always(m, T) ==
    [m EXCEPT !.resource = MapInsert(m.resource, T, DefaultValue),
              !.constructed[T] = @ + 1]

resource_register_eager(m, T) ==
    IF T \in DOMAIN m.resource
    THEN [m EXCEPT !.constructed[T] = @ + 1]
    ELSE [m EXCEPT !.resource = MapInsert(m.resource, T, DefaultValue),
                   !.constructed[T] = @ + 1]

resource_register(m, T) ==
    IF T \in DOMAIN m.resource
    THEN m
    ELSE [m EXCEPT !.resource = MapInsert(m.resource, T, DefaultValue),
                   !.constructed[T] = @ + 1]

resource_mut(m, T, v) ==
    IF T \in DOMAIN m.resource
    THEN [m EXCEPT !.resource = MapInsert(m.resource, T, v)]
    ELSE m

(***************************************************************************)
(* P::content(&mut sections): allocates the sections of the page kind and  *)
(* returns their entities in order.                                        *)
(***************************************************************************)
AllocContent(m, P) ==
    LET n == Len(m.sections)
        texts == PageContent(P).texts
    IN [model |-> [m EXCEPT !.sections = m.sections \o texts],
        content |-> [i \in 1..Len(texts) |-> n + i]]

(***************************************************************************)
(* Faulty variants of Insert::sub_page, for checking that the properties   *)
(* below depend on it: one returns a cursor bound to the new child, one    *)
(* puts the new child first in the parent's list, one leaves the parent    *)
(* of the new page unset, one replaces the parent's list, one appends to   *)
(* the parent's list only when the parent already has one.                 *)
(***************************************************************************)
SubPageWith(m, id, P, parent, ret_child, place) ==
    LET page == Len(m.pages) + 1
        m1 == [m EXCEPT !.pages = Append(m.pages, [parent |-> parent, kind |-> P])]
        a == AllocContent(m1, P)
        m2 == IF PageContent(P).some
              THEN [a.model EXCEPT !.content = MapInsert(a.model.content, page, a.content)]
              ELSE m1
        m3 == resource_register(m2, PageModel(P))
        old == IF id \in DOMAIN m3.sub_pages THEN m3.sub_pages[id] ELSE << >>
        new == CASE place = "front" -> <<page>> \o old
                 [] place = "replace" -> <<page>>
                 [] OTHER -> Append(old, page)
        fault == id = NullEntity
        m4 == IF fault \/ (place = "modify" /\ id \notin DOMAIN m3.sub_pages)
              THEN m3
              ELSE [m3 EXCEPT !.sub_pages = MapInsert(m3.sub_pages, id, new)]
    IN [model |-> m4, id |-> IF ret_child THEN page ELSE id, page |-> page,
        fault |-> fault]

\* Faulty variant of Insert::sub_page: it stores the content of the new
\* page under the cursor's page.
sub_page_content_parent(m, id, P) ==
    LET page == Len(m.pages) + 1
        m1 == [m EXCEPT !.pages = Append(m.pages, [parent |-> id, kind |-> P])]
        a == AllocContent(m1, P)
        m2 == IF PageContent(P).some
              THEN [a.model EXCEPT !.content = MapInsert(a.model.content, id, a.content)]
              ELSE m1
        m3 == resource_register(m2, PageModel(P))
        old == IF id \in DOMAIN m3.sub_pages THEN m3.sub_pages[id] ELSE << >>
        m4 == [m3 EXCEPT !.sub_pages = MapInsert(m3.sub_pages, id, Append(old, page))]
    IN [model |-> m4, id |-> id, page |-> page, fault |-> FALSE]

sub_page_child(m, id, P) == SubPageWith(m, id, P, id, TRUE, "back")

sub_page_front(m, id, P) == SubPageWith(m, id, P, id, FALSE, "front")

sub_page_orphan(m, id, P) == SubPageWith(m, id, P, NullEntity, FALSE, "back")

sub_page_modify(m, id, P) == SubPageWith(m, id, P, id, FALSE, "modify")

sub_page_replace(m, id, P) == SubPageWith(m, id, P, id, FALSE, "replace")

(***************************************************************************)
(* Insert::sub_page.  Takes the model and the cursor's id; the result is   *)
(* the model after the call, the cursor it returns and the page it         *)
(* allocated.  The hierarchy map has no entry for the null key: `fault` is *)
(* the "parent page missing" panic, raised after the page, its content and *)
(* its resource are stored.  Attach is the update of the hierarchy map:    *)
(* push onto the parent's list, or start the list with the new child.      *)
(***************************************************************************)
Attach(m, id, page) ==
    [m EXCEPT !.sub_pages =
        IF id \in DOMAIN m.sub_pages
        THEN MapInsert(m.sub_pages, id, Append(m.sub_pages[id], page))
        ELSE MapInsert(m.sub_pages, id, <<page>>)]

sub_page(m, id, P) ==
    LET page == Len(m.pages) + 1
        m1 == [m EXCEPT !.pages = Append(m.pages, [parent |-> id, kind |-> P])]
        a == AllocContent(m1, P)
        m2 == IF PageContent(P).some
              THEN [a.model EXCEPT !.content = MapInsert(a.model.content, page, a.content)]
              ELSE m1
        m3 == resource_register(m2, PageModel(P))
    IN IF id = NullEntity
       THEN [model |-> m3, id |-> id, page |-> page, fault |-> TRUE]
       ELSE [model |-> Attach(m3, id, page), id |-> id, page |-> page,
             fault |-> FALSE]

(***************************************************************************)
(* P::sub_pages(cursor): the hook chains its sub_page calls on the cursor; *)
(* a panic ends the chain.                                                  *)
(***************************************************************************)
RECURSIVE Chain(_, _, _)
Chain(m, id, kinds) ==
    IF kinds = << >>
    THEN [model |-> m, id |-> id, fault |-> FALSE]
    ELSE LET r == sub_page(m, id, Head(kinds))
         IN IF r.fault
            THEN [model |-> r.model, id |-> r.id, fault |-> TRUE]
            ELSE Chain(r.model, r.id, Tail(kinds))

(***************************************************************************)
(* Insert::content.  `overwrites` counts the calls.                         *)
(***************************************************************************)
\* Faulty variant of Insert::content: it appends to the record of the page.
insert_content_extend(m, id, c) ==
    [model |-> [m EXCEPT !.content = MapInsert(m.content, id, content(m, id).v \o c),
                         !.overwrites = @ + 1],
     id |-> id, fault |-> FALSE]

insert_content(m, id, c) ==
    [model |-> [m EXCEPT !.content = MapInsert(m.content, id, c),
                         !.overwrites = @ + 1],
     id |-> id, fault |-> FALSE]

(***************************************************************************)
(* The Insert::content call that ends the hook of a page kind: the hook    *)
(* allocates the sections of its content and hands them to the cursor its  *)
(* chain returned (r is the result of the chain).                           *)
(***************************************************************************)
HookSections(m, P) == [i \in 1..Len(HookContent(P).texts) |-> Len(m.sections) + i]

HookInsert(r, P) ==
    IF r.fault \/ ~HookContent(P).some
    THEN r
    ELSE insert_content([r.model EXCEPT !.sections = @ \o HookContent(P).texts],
                        r.id, HookSections(r.model, P))

\* The result of register: the model and the cursor the hook returned (r)
\* and the page the call allocated.
Registered(r, page) ==
    [model |-> r.model, id |-> r.id, page |-> page, fault |-> r.fault]

\* Faulty variant of Model::register: it stores the Content record of the
\* page but not the sections allocated for it.
register_detached(m, P) ==
    LET id == Len(m.pages) + 1
        m1 == [m EXCEPT !.pages = Append(m.pages, [parent |-> NullEntity, kind |-> P])]
        a == AllocContent(m1, P)
        m2 == IF PageContent(P).some
              THEN [m1 EXCEPT !.content = MapInsert(m1.content, id, a.content)]
              ELSE m1
        m3 == resource_register(m2, PageModel(P))
    IN Registered(HookInsert(Chain(m3, id, PageHook(P)), P), id)

\* Faulty variant of Model::register: it hands the hook a cursor with the
\* null key.
register_null_cursor(m, P) ==
    LET id == Len(m.pages) + 1
        m1 == [m EXCEPT !.pages = Append(m.pages, [parent |-> NullEntity, kind |-> P])]
        a == AllocContent(m1, P)
        m2 == IF PageContent(P).some
              THEN [a.model EXCEPT !.content = MapInsert(a.model.content, id, a.content)]
              ELSE m1
        m3 == resource_register(m2, PageModel(P))
    IN Registered(HookInsert(Chain(m3, NullEntity, PageHook(P)), P), id)

\* Faulty variant of Model::register: it allocates the sections of the page
\* but stores no Content record.
register_drop_content(m, P) ==
    LET id == Len(m.pages) + 1
        m1 == [m EXCEPT !.pages = Append(m.pages, [parent |-> NullEntity, kind |-> P])]
        m2 == AllocContent(m1, P).model
        m3 == resource_register(m2, PageModel(P))
    IN Registered(HookInsert(Chain(m3, id, PageHook(P)), P), id)

(***************************************************************************)
(* Model::register.  `page` is the entity the call allocated, `id` the     *)
(* page of the cursor the hook returned.                                    *)
(***************************************************************************)
register(m, P) ==
    LET id == Len(m.pages) + 1
        m1 == [m EXCEPT !.pages = Append(m.pages, [parent |-> NullEntity, kind |-> P])]
        a == AllocContent(m1, P)
        m2 == IF PageContent(P).some
              THEN [a.model EXCEPT !.content = MapInsert(a.model.content, id, a.content)]
              ELSE m1
        m3 == resource_register(m2, PageModel(P))
    IN Registered(HookInsert(Chain(m3, id, PageHook(P)), P), id)

(***************************************************************************)
(* Model::search and SearchIter::next.  The outer cursor walks the content *)
(* map in the map's iteration order, which the hash map fixes only for the *)
(* lifetime of one iterator: `order` is that order.  `tested` records each *)
(* matches_search call, in order (the probe of the laziness property),     *)
(* `yielded` the items returned so far and `exhausted` whether a call has  *)
(* returned nothing.                                                        *)
(***************************************************************************)
None == [some |-> FALSE, page |-> NullEntity, section |-> NullEntity]

Some(page, section) == [some |-> TRUE, page |-> page, section |-> section]

NoIter ==
    [live |-> FALSE, content |-> << >>, sections |-> [some |-> FALSE, rest |-> << >>],
     page |-> NullEntity, rule |-> << >>, order |-> << >>, tested |-> << >>,
     yielded |-> << >>, ret |-> None, exhausted |-> FALSE]

search(m, rule, order) ==
    [live |-> TRUE, content |-> order, sections |-> [some |-> FALSE, rest |-> << >>],
     page |-> NullEntity, rule |-> rule, order |-> order, tested |-> << >>,
     yielded |-> << >>, ret |-> None, exhausted |-> FALSE]

NoSections == [some |-> FALSE, rest |-> << >>]

\* Faulty variants of SearchIter::next: "skip" drops the rest of a page's
\* sections after a match, "eager" tests the rest of the page's sections
\* before it returns a match, "restart" rewinds the outer cursor when it
\* is exhausted.
RECURSIVE NextWith(_, _, _)
NextWith(it, m, fault) ==
    IF it.sections.some
    THEN IF it.sections.rest # << >>
         THEN LET id == Head(it.sections.rest)
                  it1 == [it EXCEPT !.sections.rest = Tail(@),
                                    !.tested = Append(@, <<it.page, id>>)]
              IN IF matches_search(m.sections[id], it.rule)
                 THEN CASE fault = "skip" ->
                             [it1 EXCEPT !.ret = Some(it.page, id), !.sections = NoSections]
                        [] fault = "eager" ->
                             [it1 EXCEPT !.ret = Some(it.page, id),
                                         !.tested = @ \o [i \in 1..Len(it1.sections.rest) |->
                                                             <<it.page, it1.sections.rest[i]>>]]
                        [] OTHER -> [it1 EXCEPT !.ret = Some(it.page, id)]
                 ELSE NextWith(it1, m, fault)
         ELSE NextWith([it EXCEPT !.sections = NoSections], m, fault)
    ELSE IF it.content # << >>
         THEN LET page == Head(it.content)
              IN NextWith([it EXCEPT !.content = Tail(@),
                                     !.page = page,
                                     !.sections = [some |-> TRUE, rest |-> m.content[page]]],
                          m, fault)
         ELSE IF fault = "restart"
              THEN [it EXCEPT !.ret = None, !.content = it.order]
              ELSE [it EXCEPT !.ret = None]

next_skip(it, m) == NextWith(it, m, "skip")

next_eager(it, m) == NextWith(it, m, "eager")

next_restart(it, m) == NextWith(it, m, "restart")

\* SearchIter::next: the iterator after the call; `ret` is what the call
\* returned.
RECURSIVE next(_, _)
next(it, m) ==
    IF it.sections.some
    THEN IF it.sections.rest # << >>
         THEN LET id == Head(it.sections.rest)
                  it1 == [it EXCEPT !.sections.rest = Tail(@),
                                    !.tested = Append(@, <<it.page, id>>)]
              IN IF matches_search(m.sections[id], it.rule)
                 THEN [it1 EXCEPT !.ret = Some(it.page, id)]
                 ELSE next(it1, m)
         ELSE next([it EXCEPT !.sections = NoSections], m)
    ELSE IF it.content # << >>
         THEN LET page == Head(it.content)
              IN next([it EXCEPT !.content = Tail(@),
                                 !.page = page,
                                 !.sections = [some |-> TRUE, rest |-> m.content[page]]], m)
         ELSE [it EXCEPT !.ret = None]

(***************************************************************************)
(* Inputs                                                                   *)
(***************************************************************************)
Perms(S) == {s \in [1..Cardinality(S) -> S] : Range(s) = S}

\* Entities a caller may hold: every live page, the null key and a key that
\* no allocation has issued yet.
EntityInputs(m) == 0..(Len(m.pages) + 1)

\* Contents a caller may hand to Insert::content: no section, one live
\* section, or two live sections (the same one twice included).
ContentInputs(m) ==
    {<< >>} \cup {<<s>> : s \in DOMAIN m.sections}
            \cup {<<s, t>> : s, t \in DOMAIN m.sections}

\* Whether the exploration has room for the pages and sections of a chain
\* of page kinds.
RECURSIVE SectionsOf(_)
SectionsOf(kinds) ==
    IF kinds = << >> THEN 0
    ELSE Len(PageContent(Head(kinds)).texts) + SectionsOf(Tail(kinds))

Room(m, kinds) ==
    /\ Len(m.pages) + Len(kinds) <= MaxPages
    /\ Len(m.sections) + SectionsOf(kinds) <= MaxSections

\* The Insert cursor: the page it is bound to.  `root` is the page the
\* register call allocated, `hooked` the children register's hook gave it
\* and `chain` the pages allocated by the sub_page calls made since on the
\* cursor register returned.
NoCursor ==
    [open |-> FALSE, id |-> NullEntity, root |-> NullEntity,
     hooked |-> << >>, chain |-> << >>]

\* The last call: the operation, the cursor it was made on, the entity it
\* allocated or was given, the id of the cursor it returned, its type
\* parameter, the value it was given and whether it panicked.
Called(op, cursor, page, ret, T) ==
    [op |-> op, cursor |-> cursor, page |-> page, ret |-> ret, type |-> T,
     arg |-> << >>, fault |-> FALSE]

\* A panic ends the program.
Idle == ~insert.open /\ ~iter.live /\ ~call.fault

(***************************************************************************)
(* The state after construction.                                            *)
(***************************************************************************)
Init ==
    /\ model = ModelDefault
    /\ insert = NoCursor
    /\ iter = NoIter
    /\ call = Called("new", NullEntity, NullEntity, NullEntity, "")
    /\ ops = 0

(***************************************************************************)
(* Operations.  A cursor borrows the model mutably and an iterator borrows *)
(* it immutably, so while either is alive only its own methods run.  `ops` *)
(* counts the content, data and resource calls made so far.                *)
(***************************************************************************)
Register(P) ==
    /\ Idle
    /\ Room(model, <<P>> \o PageHook(P))
    /\ Len(model.sections) + SectionsOf(<<P>> \o PageHook(P))
           + Len(HookContent(P).texts) <= MaxSections
    /\ LET r == register(model, P)
       IN /\ model' = r.model
          /\ insert' = IF r.fault THEN NoCursor
                        ELSE [open |-> TRUE, id |-> r.id, root |-> r.page,
                              hooked |-> sub_pages(r.model, r.page).v,
                              chain |-> << >>]
          /\ call' = [Called("register", NullEntity, r.page, r.id, P)
                         EXCEPT !.fault = r.fault]
    /\ UNCHANGED <<iter, ops>>

SubPage(P) ==
    /\ insert.open
    /\ Room(model, <<P>>)
    /\ LET r == sub_page(model, insert.id, P)
       IN /\ model' = r.model
          /\ insert' = IF r.fault THEN NoCursor
                        ELSE [insert EXCEPT !.id = r.id, !.chain = Append(@, r.page)]
          /\ call' = [Called("sub_page", insert.id, r.page, r.id, P)
                         EXCEPT !.fault = r.fault]
    /\ UNCHANGED <<iter, ops>>

InsertContent(c) ==
    /\ insert.open
    /\ ops < MaxContentOps
    /\ LET r == insert_content(model, insert.id, c)
       IN /\ model' = r.model
          /\ insert' = [insert EXCEPT !.id = r.id]
          /\ call' = [Called("content", insert.id, insert.id, r.id, "")
                         EXCEPT !.arg = c]
    /\ ops' = ops + 1
    /\ UNCHANGED iter

InsertId ==
    /\ insert.open
    /\ insert' = NoCursor
    /\ call' = Called("id", insert.id, insert.id, insert.id, "")
    /\ UNCHANGED <<model, iter, ops>>

DataSet(T, id, d) ==
    /\ Idle
    /\ ops < MaxDataOps
    /\ model' = data_set(model, T, id, d)
    /\ call' = [Called("data_set", NullEntity, id, NullEntity, T) EXCEPT !.arg = d]
    /\ ops' = ops + 1
    /\ UNCHANGED <<insert, iter>>

DataRemove(T, id) ==
    /\ Idle
    /\ ops < MaxDataOps
    /\ model' = data_remove(model, T, id)
    /\ call' = Called("data_remove", NullEntity, id, NullEntity, T)
    /\ ops' = ops + 1
    /\ UNCHANGED <<insert, iter>>

ResourceRegister(T) ==
    /\ Idle
    /\ ops < MaxResourceOps
    /\ model' = resource_register(model, T)
    /\ call' = Called("resource_register", NullEntity, NullEntity, NullEntity, T)
    /\ ops' = ops + 1
    /\ UNCHANGED <<insert, iter>>

ResourceMut(T, v) ==
    /\ Idle
    /\ ops < MaxResourceOps
    /\ model' = resource_mut(model, T, v)
    /\ call' = Called("resource_mut", NullEntity, NullEntity, NullEntity, T)
    /\ ops' = ops + 1
    /\ UNCHANGED <<insert, iter>>

Search(rule, order) ==
    /\ Idle
    /\ iter' = search(model, rule, order)
    /\ call' = Called("search", NullEntity, NullEntity, NullEntity, "")
    /\ UNCHANGED <<model, insert, ops>>

IterNext ==
    /\ iter.live
    /\ LET it == next(iter, model)
       IN iter' = [it EXCEPT
                     !.yielded = IF it.ret.some
                                 THEN Append(@, <<it.ret.page, it.ret.section>>)
                                 ELSE @,
                     !.exhausted = @ \/ ~it.ret.some]
    /\ call' = Called("next", NullEntity, NullEntity, NullEntity, "")
    /\ UNCHANGED <<model, insert, ops>>

IterDrop ==
    /\ iter.live
    /\ iter' = NoIter
    /\ call' = Called("drop", NullEntity, NullEntity, NullEntity, "")
    /\ UNCHANGED <<model, insert, ops>>

(***************************************************************************)
(* Specifications.  Spec interleaves every mutating operation; the others  *)
(* interleave page registration with one family of operations each.        *)
(***************************************************************************)
Registers == \E P \in Kinds : Register(P)

SubPages == \E P \in Kinds : SubPage(P)

Contents == \E c \in ContentInputs(model) : InsertContent(c)

DataSets ==
    \E T \in DataTypes, id \in EntityInputs(model), d \in DataValues : DataSet(T, id, d)

DataRemoves == \E T \in DataTypes, id \in EntityInputs(model) : DataRemove(T, id)

ResourceRegisters == \E T \in ResourceTypes : ResourceRegister(T)

ResourceMuts == \E T \in ResourceTypes, v \in ResourceValues : ResourceMut(T, v)

Searches == \E rule \in Rules, order \in Perms(DOMAIN model.content) : Search(rule, order)

\* Every mutating operation, with at most MaxMixedOps content, data and
\* resource calls in one run.
Next ==
    \/ Registers
    \/ SubPages
    \/ InsertId
    \/ ops < MaxMixedOps /\ Contents
    \/ ops < MaxMixedOps /\ DataSets
    \/ ops < MaxMixedOps /\ DataRemoves
    \/ ops < MaxMixedOps /\ ResourceRegisters
    \/ ops < MaxMixedOps /\ ResourceMuts

Spec == Init /\ [][Next]_vars

\* Registration and the per-page data store.
NextData == Registers \/ InsertId \/ DataSets \/ DataRemoves

SpecData == Init /\ [][NextData]_vars

\* Registration, sub-pages and the resource store.
NextResource == Registers \/ SubPages \/ InsertId \/ ResourceRegisters \/ ResourceMuts

SpecResource == Init /\ [][NextResource]_vars

\* Registration, content and search.
NextSearch == Registers \/ InsertId \/ Contents \/ Searches \/ IterNext \/ IterDrop

SpecSearch == Init /\ [][NextSearch]_vars

(***************************************************************************)
(* Properties                                                               *)
(***************************************************************************)
IsPrefix(s, t) == Len(s) <= Len(t) /\ SubSeq(t, 1, Len(s)) = s

Parent(m, c) == m.pages[c].parent

\* C1 as stated: after register::<X>() and a chain of n >= 1 sub_page calls
\* on the cursor it returned, sub_pages(X) is exactly the n new children in
\* call order and each child's Meta.parent is X.
C1_Original ==
    (insert.open /\ Len(insert.chain) >= 1) =>
        /\ sub_pages(model, insert.root).v = insert.chain
        /\ \A i \in DOMAIN insert.chain : Parent(model, insert.chain[i]) = insert.root

\* C1 amended: after register::<X>() and a chain of n >= 1 sub_page calls on
\* the cursor it returned, sub_pages(X) is the children X's own sub_pages
\* hook registered (one per sub_page call of the hook) followed by exactly
\* the n new children in call order, and each of them has Meta.parent = X.
C1_RoundTrip ==
    (insert.open /\ Len(insert.chain) >= 1) =>
        /\ sub_pages(model, insert.root).some
        /\ sub_pages(model, insert.root).v = insert.hooked \o insert.chain
        /\ Len(insert.hooked) = Len(PageHook(model.pages[insert.root].kind))
        /\ \A c \in Range(insert.hooked \o insert.chain) :
              contains_item(model, c) /\ Parent(model, c) = insert.root

\* A page whose hook registered a child, then one chained sub_page call.
C1_WitnessHook ==
    /\ insert.open
    /\ Len(insert.chain) = 1
    /\ Len(insert.hooked) = 1
    /\ sub_pages(model, insert.root).v = insert.hooked \o insert.chain

\* C2 as stated: the cursor sub_page returns is bound to the page that this
\* sub_page call allocated.
C2_Original == call.op = "sub_page" => call.ret = call.page

\* C2 amended: the cursor sub_page returns is the cursor it was called on:
\* its id() is the parent's entity, not the page just allocated, so a
\* further chained sub_page registers another child of the same parent.
C2_ReturnsSelf ==
    call.op = "sub_page" =>
        /\ call.ret = call.cursor
        /\ call.ret # call.page
        /\ insert.open /\ insert.id = call.ret
        /\ Parent(model, call.page) = call.cursor
        /\ \A c \in Range(insert.chain) : Parent(model, c) = insert.id

\* Two chained sub_page calls made two children of the cursor's page.
C2_Witness ==
    /\ call.op = "sub_page"
    /\ Len(insert.chain) = 2
    /\ Parent(model, insert.chain[1]) = call.ret
    /\ Parent(model, insert.chain[2]) = call.ret

\* Every (page, section) occurrence of the content map, pages in the
\* iterator's order and sections in their page's order.
RECURSIVE Occurrences(_, _)
Occurrences(m, order) ==
    IF order = << >> THEN << >>
    ELSE LET p == Head(order)
         IN [i \in 1..Len(m.content[p]) |-> <<p, m.content[p][i]>>]
            \o Occurrences(m, Tail(order))

Matching(m, occurrences, rule) ==
    LET Test(o) == matches_search(m.sections[o[2]], rule)
    IN SelectSeq(occurrences, Test)

\* C3: a fully drained search yields exactly the matching (page, section)
\* occurrences of the content map, one pair per occurrence, page by page in
\* the map's order and in section order within a page; no pair ever names a
\* page without a Content record or the null page entity.
C3_SearchComplete ==
    iter.live =>
        /\ Len(iter.order) = Cardinality(DOMAIN model.content)
        /\ Range(iter.order) = DOMAIN model.content
        /\ IsPrefix(iter.yielded, Matching(model, Occurrences(model, iter.order), iter.rule))
        /\ iter.exhausted =>
              iter.yielded = Matching(model, Occurrences(model, iter.order), iter.rule)
        /\ \A i \in DOMAIN iter.yielded :
              /\ iter.yielded[i][1] # NullEntity
              /\ content(model, iter.yielded[i][1]).some
              /\ iter.yielded[i][2] \in Range(content(model, iter.yielded[i][1]).v)

\* A drained search over a page without content and two pages with
\* content, which yielded one section of each of the two.
C3_Witness ==
    /\ iter.live /\ iter.exhausted
    /\ Len(iter.yielded) = 2
    /\ iter.yielded[1][1] # iter.yielded[2][1]
    /\ \E p \in DOMAIN model.pages : ~content(model, p).some
    /\ Len(iter.tested) = 3

\* C4: when next() returns a match (p, s), the sections tested so far are
\* the occurrences up to and including s, each once and in iteration order:
\* nothing after s has been tested, and the following call resumes at the
\* occurrence right after s.
C4_SearchLazy ==
    iter.live =>
        /\ IsPrefix(iter.tested, Occurrences(model, iter.order))
        /\ iter.ret.some =>
              /\ iter.tested # << >>
              /\ iter.tested[Len(iter.tested)] = <<iter.ret.page, iter.ret.section>>
              /\ iter.sections.some
              /\ iter.tested \o [i \in 1..Len(iter.sections.rest) |->
                                    <<iter.page, iter.sections.rest[i]>>]
                 = SubSeq(Occurrences(model, iter.order), 1,
                          Len(iter.tested) + Len(iter.sections.rest))

\* The first item was returned and later occurrences are still untested.
C4_Witness ==
    /\ iter.live
    /\ iter.ret.some
    /\ Len(iter.yielded) = 1
    /\ Len(iter.tested) = 1
    /\ Len(Occurrences(model, iter.order)) = 3

\* C5: each next() call that returns an item has tested at least one new
\* occurrence and no occurrence is tested twice, so at most as many items
\* come as there are occurrences; once a call has returned nothing, every
\* later call returns nothing and tests nothing.
C5_SearchFinite ==
    [][IterNext =>
         /\ IsPrefix(iter.tested, iter'.tested)
         /\ IsPrefix(iter'.tested, Occurrences(model, iter.order))
         /\ iter'.ret.some => Len(iter'.tested) > Len(iter.tested)
         /\ ~iter'.ret.some => iter'.content = << >> /\ ~iter'.sections.some
         /\ iter.exhausted => ~iter'.ret.some /\ iter'.tested = iter.tested]_vars

\* A drained iterator that had yielded items.
C5_Witness ==
    /\ iter.live /\ iter.exhausted
    /\ ~iter.ret.some
    /\ Len(iter.yielded) >= 2
    /\ iter.tested = Occurrences(model, iter.order)

\* C6: every entity in sub_pages(p) is a live page whose Meta.parent is p,
\* whatever register, sub_page, content, data and resource calls were made.
C6_Hierarchy ==
    \A p \in DOMAIN model.sub_pages :
        \A c \in Range(sub_pages(model, p).v) :
            contains_item(model, c) /\ Parent(model, c) = p

\* A page with two children, after a content, data or resource call.
C6_Witness ==
    /\ ops > 0
    /\ \E p \in DOMAIN model.pages : Len(sub_pages(model, p).v) = 2

\* The sub_page calls one step makes on a cursor bound to page p: one for a
\* sub_page call on the cursor, the hook's calls for the register call that
\* allocated p.
SubPageCalls(c, p) ==
    IF c.op = "sub_page" /\ c.cursor = p THEN 1
    ELSE IF c.op = "register" /\ c.page = p THEN Len(PageHook(c.type))
    ELSE 0

\* C7: no operation removes or reorders children: sub_pages(p) before an
\* operation is a prefix of sub_pages(p) after it, it grows by one entity
\* per sub_page call on a cursor bound to p and by nothing else, and a
\* sub_page call appends the page it allocated.
C7_AppendOnly ==
    [][\A p \in DOMAIN model'.pages :
          LET old == sub_pages(model, p)
              new == sub_pages(model', p)
          IN /\ IsPrefix(old.v, new.v)
             /\ old.some => new.some
             /\ Len(new.v) = Len(old.v) + SubPageCalls(call', p)
             /\ (call'.op = "sub_page" /\ call'.cursor = p) =>
                   new.v = Append(old.v, call'.page)]_vars

\* A sub_page call extended a list that already held a child.
C7_Witness ==
    /\ call.op = "sub_page"
    /\ Len(sub_pages(model, call.cursor).v) >= 2
    /\ sub_pages(model, call.cursor).v[Len(sub_pages(model, call.cursor).v)] = call.page

\* C8: a resource_register call, direct or made by register or sub_page,
\* leaves every resource that is already present as it is, so a value
\* written through resource_mut stays readable.
C8_RegisterIdempotent ==
    [][call'.op \in {"resource_register", "register", "sub_page"} =>
          \A T \in ResourceTypes :
              resource(model, T).some => resource(model', T) = resource(model, T)]_vars

\* resource_register was called on a type whose value had been mutated.
C8_Witness ==
    /\ call.op = "resource_register"
    /\ resource(model, call.type).some
    /\ resource(model, call.type).v # DefaultValue

Declares(m, T) == \E p \in DOMAIN m.pages : PageModel(m.pages[p].kind) = T

\* C9: the model type of every registered page is present as a resource; a
\* default of a type is constructed at most once and exactly once when the
\* resource is present; with register and sub_page calls alone it is
\* constructed exactly when the first page declaring the type is registered.
C9_ExactlyOnce ==
    \A T \in ResourceTypes :
        /\ model.constructed[T] <= 1
        /\ resource(model, T).some <=> model.constructed[T] = 1
        /\ Declares(model, T) => resource(model, T).some
        /\ ops = 0 => (Declares(model, T) <=> model.constructed[T] = 1)

\* Two pages declare the same model type and share its one instance.
C9_Witness ==
    /\ \E p, q \in DOMAIN model.pages :
          /\ p # q
          /\ PageModel(model.pages[p].kind) = PageModel(model.pages[q].kind)
          /\ model.constructed[PageModel(model.pages[p].kind)] = 1
    /\ call.op = "sub_page"

\* C10: data_set<T>(A, v) leaves data<U>(B) as it was for every page B
\* other than A and every type U.
C10_DataIsolation ==
    [][call'.op = "data_set" =>
          \A B \in DOMAIN model.pages : B # call'.page =>
              \A U \in DataTypes : data(model', U, B) = data(model, U, B)]_vars

\* data_set on a live page A while another page B holds a different value
\* of the same type.
C10_Witness ==
    /\ call.op = "data_set"
    /\ contains_item(model, call.page)
    /\ data(model, call.type, call.page).some
    /\ \E B \in DOMAIN model.pages :
          /\ B # call.page
          /\ data(model, call.type, B).some
          /\ data(model, call.type, B).v # data(model, call.type, call.page).v

\* C11: a data_set<T>(e, v) call whose entity e is not live (contains_item(e)
\* is false) leaves the whole per-page data store as it was: no value is
\* stored for e and no per-type map is created for T; afterwards data<T>(e)
\* returns nothing.
C11_StaleSet ==
    [][(call'.op = "data_set" /\ ~contains_item(model, call'.page)) =>
          /\ model'.storage = model.storage
          /\ model' = model
          /\ ~data(model', call'.type, call'.page).some]_vars

\* A data_set<T> on a key that no allocation has issued, made when the store
\* holds a value of another type and no map for T.
C11_Witness ==
    /\ call.op = "data_set"
    /\ ~contains_item(model, call.page)
    /\ call.page # NullEntity
    /\ model.storage # EmptyMap
    /\ call.type \notin DOMAIN model.storage
    /\ ops = 2

\* Whether the Content record of `page` in model n is exactly the section
\* entities allocated, in order, for the texts `c.texts` since model m (and
\* no record when c is nothing).
Associated(m, n, page, c) ==
    LET r == content(n, page)
    IN /\ r.some = c.some
       /\ c.some =>
            /\ Len(r.v) = Len(c.texts)
            /\ \A i \in DOMAIN r.v :
                   /\ r.v[i] > Len(m.sections)
                   /\ r.v[i] \in DOMAIN n.sections
                   /\ n.sections[r.v[i]] = c.texts[i]
            /\ \A i, j \in DOMAIN r.v : i < j => r.v[i] < r.v[j]

\* The pages a step allocated.
NewPages(m, n) == (DOMAIN n.pages) \ (DOMAIN m.pages)

\* C12 as stated: a page created by register or sub_page has as its Content
\* record exactly the sections allocated for the content its definition's
\* content step supplies, or no record when that step supplies none, and the
\* call leaves the Content records of the pages that existed before as they
\* were.
C12_Original ==
    [][call'.op \in {"register", "sub_page"} =>
          /\ \A q \in NewPages(model, model') :
                 Associated(model, model', q, PageContent(model'.pages[q].kind))
          /\ \A q \in DOMAIN model.pages : content(model', q) = content(model, q)]_vars

\* C12, amended: as C12_Original, except that a page created by register
\* whose hook calls Insert::content has the content the hook gave it.
C12_Association ==
    [][call'.op \in {"register", "sub_page"} =>
          /\ \A q \in NewPages(model, model') :
                 LET P == model'.pages[q].kind
                 IN Associated(model, model', q,
                               IF call'.op = "register" /\ q = call'.page
                                  /\ HookContent(P).some
                               THEN HookContent(P) ELSE PageContent(P))
          /\ \A q \in DOMAIN model.pages : content(model', q) = content(model, q)]_vars

\* A sub_page call that created a page with two sections when an earlier
\* page already had content.
C12_Witness ==
    /\ call.op = "sub_page"
    /\ Len(content(model, call.page).v) = 2
    /\ \E q \in DOMAIN model.pages :
           q < call.page /\ content(model, q).some /\ content(model, q).v # << >>

\* C13: the cursor register::<P>() returns is bound to the top-level page
\* that call allocated, whatever sub_page and content calls the hook of P
\* chained on it: id() on that cursor returns that page, and the page has no
\* parent.
C13_RegisterCursor ==
    [][/\ call'.op = "register" =>
             /\ call'.page = Len(model.pages) + 1
             /\ call'.ret = call'.page
             /\ insert'.open /\ insert'.id = call'.page
             /\ Parent(model', call'.page) = NullEntity
       /\ (call.op = "register" /\ call'.op = "id") => call'.ret = call.page]_vars

\* id() has returned the page of a register call whose hook chained two
\* sub_page calls and a content call.
C13_Witness ==
    /\ call.op = "id"
    /\ call.ret \in DOMAIN model.pages
    /\ model.pages[call.ret].kind = "W"
    /\ Len(sub_pages(model, call.ret).v) = 2
    /\ model.overwrites = 1
    /\ Len(model.pages) = 3

\* C14: Insert::content(C) makes C the Content record of the cursor's own
\* page, whether or not the page had one; the cursor stays on that page; the
\* Content records of the other pages, the page registry, the hierarchy and
\* the section registry stay as they were.  No other call changes the
\* Content record of an existing page, and an item a search yields for a
\* page is a section of the page's current record, so a later search yields
\* for the page only sections of C.
C14_Overwrite ==
    [][/\ call'.op = "content" =>
             /\ content(model', insert.id) = [some |-> TRUE, v |-> call'.arg]
             /\ insert'.open /\ insert'.id = insert.id /\ call'.ret = insert.id
             /\ DOMAIN model'.content = DOMAIN model.content \cup {insert.id}
             /\ model'.pages = model.pages
             /\ model'.sub_pages = model.sub_pages
             /\ model'.sections = model.sections
       /\ \A q \in DOMAIN model.pages :
             content(model', q) # content(model, q) =>
                 call'.op = "content" /\ q = insert.id
       /\ (call'.op = "next" /\ iter'.ret.some) =>
             iter'.ret.section \in Range(content(model, iter'.ret.page).v)]_vars

\* A search has yielded a section of a page whose two-section content an
\* Insert::content call replaced by one section.
C14_Witness ==
    /\ iter.live
    /\ \E i \in DOMAIN iter.yielded :
           LET p == iter.yielded[i][1]
           IN /\ model.pages[p].kind = "Y"
              /\ content(model, p).v = <<iter.yielded[i][2]>>

\* The (page, position) occurrences of section s in the Content records of
\* model m.
Holders(m, s) ==
    UNION {{<<p, i>> : i \in {j \in DOMAIN m.content[p] : m.content[p][j] = s}} :
              p \in DOMAIN m.content}

\* C15 as stated: every section of the section registry appears in the
\* Content record of exactly one page.
C15_Original ==
    \A s \in DOMAIN model.sections :
        Cardinality({pi[1] : pi \in Holders(model, s)}) = 1

\* C15, amended: as long as no Insert::content call has been made, by a
\* caller or by a hook, every section of the section registry appears
\* exactly once in the Content record of exactly one page.
C15_OnePage ==
    model.overwrites = 0 =>
        \A s \in DOMAIN model.sections : Cardinality(Holders(model, s)) = 1

\* Three sections allocated by registrations for two pages, and no
\* Insert::content call.
C15_Witness ==
    /\ model.overwrites = 0
    /\ Len(model.sections) = 3
    /\ Cardinality(DOMAIN model.content) = 2

\* C16: when every cursor comes from register and is passed only through
\* sub_page and content, the hierarchy map always locates the slot of the
\* cursor's page: no sub_page call, made by a caller or by a hook, panics
\* with "parent page missing", the open cursor is bound to a live page and
\* the child a sub_page call created is in the list of the cursor's page.
C16_ParentFound ==
    /\ ~call.fault
    /\ insert.open => (insert.id # NullEntity /\ contains_item(model, insert.id))
    /\ call.op = "sub_page" =>
          call.page \in Range(sub_pages(model, call.cursor).v)

\* Two sub_page calls and a content call made on a cursor that register
\* returned.
C16_Witness ==
    /\ call.op = "sub_page"
    /\ insert.open
    /\ Len(insert.chain) = 2
    /\ model.overwrites >= 1

\* C17: data_set<T>(e, v) on a live page inserts or overwrites: afterwards
\* data<T>(e) returns v, whether or not e had a T value (so a second
\* data_set<T>(e, w) makes it w), and the value of every other type on e is
\* as it was.
C17_SetOverwrites ==
    [][(call'.op = "data_set" /\ contains_item(model, call'.page)) =>
          /\ data(model', call'.type, call'.page) = [some |-> TRUE, v |-> call'.arg]
          /\ \A U \in DataTypes \ {call'.type} :
                 data(model', U, call'.page) = data(model, U, call'.page)]_vars

\* A data_set<T> on a page that holds a value of another type.
C17_Witness ==
    /\ call.op = "data_set"
    /\ contains_item(model, call.page)
    /\ data(model, call.type, call.page) = [some |-> TRUE, v |-> call.arg]
    /\ \E U \in DataTypes \ {call.type} : data(model, U, call.page).some

RECURSIVE Ancestor(_, _, _)
Ancestor(m, c, n) ==
    IF n = 0 THEN c
    ELSE LET a == Ancestor(m, c, n - 1)
         IN IF a \in DOMAIN m.pages THEN Parent(m, a) ELSE NullEntity

\* C20: the hierarchy map and Meta.parent describe the same forest: page c
\* has parent p exactly when c is in the child list of p; c is there once
\* and in no other list; every list belongs to a live page and holds live
\* pages; a page without a parent (a registered page) is in no list; no
\* page is its own ancestor.
C20_Forest ==
    /\ \A p \in DOMAIN model.sub_pages :
          /\ contains_item(model, p)
          /\ Range(model.sub_pages[p]) \subseteq DOMAIN model.pages
          /\ \A i, j \in DOMAIN model.sub_pages[p] :
                 i # j => model.sub_pages[p][i] # model.sub_pages[p][j]
    /\ \A c \in DOMAIN model.pages :
          /\ \A p \in DOMAIN model.pages :
                 Parent(model, c) = p <=> c \in Range(sub_pages(model, p).v)
          /\ Cardinality({p \in DOMAIN model.sub_pages :
                              c \in Range(model.sub_pages[p])}) <= 1
          /\ Parent(model, c) = NullEntity =>
                 \A p \in DOMAIN model.sub_pages : c \notin Range(model.sub_pages[p])
          /\ Parent(model, c) \in DOMAIN model.pages \cup {NullEntity}
          /\ \A n \in 1..Len(model.pages) : Ancestor(model, c, n) # c

\* Two trees: a registered page with a child and another registered page.
C20_Witness ==
    /\ Len(model.pages) = 3
    /\ Cardinality({c \in DOMAIN model.pages : Parent(model, c) = NullEntity}) = 2
    /\ Cardinality(DOMAIN model.sub_pages) = 1
====
